---- MODULE Spec2Model ----
(***************************************************************************)
(* Patch tiling and reassembly of src/utils.py: patch_dims,                *)
(* create_patches and assemble_patches.                                    *)
(*                                                                         *)
(* Arrays are records [shape, data]: shape is the numpy shape tuple, data  *)
(* a function from 0-based index tuples to element values.                 *)
(*                                                                         *)
(* Floating-point elements are represented in units of one half: the float *)
(* x is the integer 2*x, so that 0.5, 1.5, ... exist in the model and the  *)
(* float -> uint8 cast of line 147 is a truncation, not the identity.      *)
(* uint8 elements are plain integers 0..255.                               *)
(***************************************************************************)
EXTENDS Integers, Sequences, FiniteSets, TLC

\* ---- bounds of the explored inputs ----
MaxH == 4
MaxW == 4
MaxP == 2
MaxExtra == 1
\* extents of the runs whose loop steps are taken in any order
MaxParH == 2
MaxParW == 2

\* the channel count line 117 asserts and line 122 allocates
Channels == 4

VARIABLES
    call,           \* the function under execution, "none" before any call
    pc,             \* position inside that function
    mat,            \* create_patches argument (array)
    patch_size,     \* argument of all three functions
    mat_size,       \* patch_dims / assemble_patches argument (tuple)
    pred_patches,   \* assemble_patches argument (array)
    patches_dim,    \* create_patches local, line 119; assemble_patches' patch_dim_h/w, line 139
    patches_count,  \* local, line 120 / line 141
    patches,        \* create_patches local, line 122
    result,         \* assemble_patches local, line 140
    pending,        \* iterations of the running loop not yet executed
    writes,         \* per element of the output buffer, how many loop steps stored into it
    err,            \* the exception raised, "none" if none
    ret,            \* the returned value
    chan            \* caller: channel whose slices were handed to assemble_patches, -1 if none

vars == <<call, pc, mat, patch_size, mat_size, pred_patches, patches_dim,
          patches_count, patches, result, pending, writes, err, ret, chan>>

\* ---- arrays ----
NoArray == [shape |-> <<>>, data |-> <<>>]

Range0(n) == 0 .. (n - 1)

\* index tuples of an array of the given shape
Indices(shape) ==
    CASE Len(shape) = 2 -> Range0(shape[1]) \X Range0(shape[2])
      [] Len(shape) = 3 -> Range0(shape[1]) \X Range0(shape[2]) \X Range0(shape[3])
      [] Len(shape) = 4 -> Range0(shape[1]) \X Range0(shape[2]) \X Range0(shape[3])
                              \X Range0(shape[4])
      [] OTHER -> {}

\* np.empty in place of np.zeros: the buffer starts with leftover values
np_empty(shape) == [shape |-> shape, data |-> [ix \in Indices(shape) |-> 7]]

\* np.zeros(shape)
np_zeros(shape) == [shape |-> shape, data |-> [ix \in Indices(shape) |-> 0]]

\* the float holding the integer n
FloatOfInt(n) == 2 * n

\* float -> np.uint8 element cast of a store into the uint8 result (values in [0, 256))
astype_uint8(v) == v \div 2

\* ---- patch_dims ----
\* floor in place of ceil
np_floor_div(n, p) == IF p > 0 THEN n \div p ELSE -((n + (-p) - 1) \div (-p))

\* integer division plus one in place of ceil
np_div_plus_one(n, p) == IF p > 0 THEN (n \div p) + 1 ELSE -(n \div (-p))

\* np.ceil(n / p) for n >= 0 and p # 0
np_ceil_div(n, p) == IF p > 0 THEN (n + p - 1) \div p ELSE -(n \div (-p))

patch_dims(ms, ps) == [d \in DOMAIN ms |-> np_ceil_div(ms[d], ps)]

\* np.product(patches_dim), line 120
np_product(dims) == dims[1] * dims[2]

\* ---- inputs ----
\* patch_size = 0 is not drawn: line 112 then casts inf/nan to int, whose value
\* numpy leaves unspecified
PatchSizes == ((-MaxP) .. MaxP) \ {0}

\* element fills: the element at linear position n holds base + 2*n halves, so
\* base 2 gives the integer floats 1.0, 2.0, ... and base 301 gives 150.5, 151.5, ...
Bases == {2, 301}

IsIntFloat(v) == v % 2 = 0

LinearIndex(shape, ix) ==
    CASE Len(shape) = 2 -> ix[1] * shape[2] + ix[2]
      [] Len(shape) = 3 -> (ix[1] * shape[2] + ix[2]) * shape[3] + ix[3]
      [] Len(shape) = 4 -> ((ix[1] * shape[2] + ix[2]) * shape[3] + ix[3]) * shape[4] + ix[4]

MakeArray(shape, base) ==
    [shape |-> shape,
     data |-> [ix \in Indices(shape) |-> base + 2 * LinearIndex(shape, ix)]]

\* shapes of the mat argument: 2-D, 3-D with 3 or 4 channels, 4-D
MatShapes(Hs, Ws) ==
    UNION {{<<h, w>>, <<h, w, 3>>, <<h, w, Channels>>, <<h, w, 1, Channels>>} :
              <<h, w>> \in Hs \X Ws}

\* ---- create_patches ----
\* the second assertion left out
cp_ndim_ok(shape) == Len(shape) = 3

\* the two assertions of lines 116-117
cp_shape_ok(shape) == Len(shape) = 3 /\ shape[Len(shape)] = Channels

\* length of the slice [start : start + size] of an axis of length n (size > 0)
slice_len(start, size, n) ==
    LET lo == IF start < n THEN start ELSE n
        hi == IF start + size < n THEN start + size ELSE n
    IN  hi - lo

\* columns varying fastest in place of rows
cp_patch_id_rowmajor(y, x, dims) == y * dims[2] + x

\* the row stride left out
cp_patch_id_nostride(y, x, dims) == y + x

\* line 133
cp_patch_id(y, x, dims) == y + x * dims[1]

\* the nested range loops of lines 123/125 visit (y, x) with y outermost
cp_next(todo) ==
    CHOOSE c \in todo : \A d \in todo :
        c[1] < d[1] \/ (c[1] = d[1] /\ c[2] <= d[2])

\* line 134: patches[patch_id, :real_patch_h, :real_patch_w, :] = single_patch
cp_store(buf, m, y, x, ps, dims) ==
    LET y_start == y * ps
        x_start == x * ps
        real_patch_h == slice_len(y_start, ps, m.shape[1])
        real_patch_w == slice_len(x_start, ps, m.shape[2])
        patch_id == cp_patch_id(y, x, dims)
        hit(ix) == ix[1] = patch_id /\ ix[2] < real_patch_h /\ ix[3] < real_patch_w
    IN  [ix \in DOMAIN buf |->
            IF hit(ix) THEN m.data[<<y_start + ix[2], x_start + ix[3], ix[4]>>]
            ELSE buf[ix]]

\* the elements of patches that the step for (y, x) stores into
cp_written(buf, m, y, x, ps, dims) ==
    {ix \in DOMAIN buf :
        /\ ix[1] = cp_patch_id(y, x, dims)
        /\ ix[2] < slice_len(y * ps, ps, m.shape[1])
        /\ ix[3] < slice_len(x * ps, ps, m.shape[2])}

Bump(w, S) == [ix \in DOMAIN w |-> IF ix \in S THEN w[ix] + 1 ELSE w[ix]]

CreatePatchesCall(Hs, Ws) ==
    /\ pc = "idle"
    /\ \E shape \in MatShapes(Hs, Ws), base \in Bases, ps \in PatchSizes :
          /\ mat' = MakeArray(shape, base)
          /\ mat_size' = shape
          /\ patch_size' = ps
    /\ call' = "create_patches"
    /\ pc' = "cp_assert"
    /\ UNCHANGED <<pred_patches, patches_dim, patches_count, patches, result,
                   pending, writes, err, ret, chan>>

CpAssert ==
    /\ pc = "cp_assert"
    /\ IF cp_shape_ok(mat_size)
       THEN pc' = "cp_dims" /\ err' = err
       ELSE pc' = "raised" /\ err' = "AssertionError"
    /\ UNCHANGED <<call, mat, patch_size, mat_size, pred_patches, patches_dim,
                   patches_count, patches, result, pending, writes, ret, chan>>

CpDims ==
    /\ pc = "cp_dims"
    /\ patches_dim' = patch_dims(<<mat_size[1], mat_size[2]>>, patch_size)
    /\ patches_count' = np_product(patches_dim')
    /\ pc' = "cp_alloc"
    /\ UNCHANGED <<call, mat, patch_size, mat_size, pred_patches, patches, result,
                   pending, writes, err, ret, chan>>

CpAlloc ==
    /\ pc = "cp_alloc"
    /\ LET shape == <<patches_count, patch_size, patch_size, Channels>>
       IN  IF patches_count < 0 \/ patch_size < 0
           THEN /\ pc' = "raised"
                /\ err' = "ValueError"
                /\ UNCHANGED <<patches, pending, writes>>
           ELSE /\ patches' = np_zeros(shape)
                /\ writes' = [ix \in Indices(shape) |-> 0]
                /\ pending' = Range0(patches_dim[1]) \X Range0(patches_dim[2])
                /\ pc' = "cp_loop"
                /\ err' = err
    /\ UNCHANGED <<call, mat, patch_size, mat_size, pred_patches, patches_dim,
                   patches_count, result, ret, chan>>

CpBody(c) ==
    /\ patches' = [patches EXCEPT !.data =
                      cp_store(patches.data, mat, c[1], c[2], patch_size, patches_dim)]
    /\ writes' = Bump(writes,
                      cp_written(patches.data, mat, c[1], c[2], patch_size, patches_dim))
    /\ pending' = pending \ {c}
    /\ UNCHANGED <<call, pc, mat, patch_size, mat_size, pred_patches, patches_dim,
                   patches_count, result, err, ret, chan>>

CpLoopStep == pc = "cp_loop" /\ pending # {} /\ CpBody(cp_next(pending))

CpLoopStepAny == pc = "cp_loop" /\ \E c \in pending : CpBody(c)

CpReturn ==
    /\ pc = "cp_loop"
    /\ pending = {}
    /\ ret' = patches
    /\ pc' = "returned"
    /\ UNCHANGED <<call, mat, patch_size, mat_size, pred_patches, patches_dim,
                   patches_count, patches, result, pending, writes, err, chan>>

\* ---- patch_dims called on its own ----
PatchDimsCall ==
    /\ pc = "idle"
    /\ \E h \in 0 .. MaxH, w \in 0 .. MaxW, ps \in PatchSizes :
          /\ mat_size' = <<h, w>>
          /\ patch_size' = ps
          /\ ret' = patch_dims(<<h, w>>, ps)
    /\ call' = "patch_dims"
    /\ pc' = "returned"
    /\ UNCHANGED <<mat, pred_patches, patches_dim, patches_count, patches, result,
                   pending, writes, err, chan>>

\* ---- assemble_patches ----
\* quotient in place of remainder
ap_row_div(i, patch_dim_h) == i \div patch_dim_h

\* line 144 (without the factor patch_size)
ap_row(i, patch_dim_h) == i % patch_dim_h

\* remainder in place of quotient
ap_col_mod(i, patch_dim_h) == i % patch_dim_h

\* line 145 (without the factor patch_size)
ap_col(i, patch_dim_h) == i \div patch_dim_h

\* range(patches_count) of line 143 visits i in increasing order
ap_next(todo) == CHOOSE i \in todo : \A j \in todo : i <= j

\* numpy assignment of a value of shape (sh, sw) to a target of shape (th, tw)
broadcastable(sh, sw, th, tw) == (sh = th \/ sh = 1) /\ (sw = tw \/ sw = 1)

\* the cells of result that line 147 stores into for index i
ap_target(res, i, ps, patch_dim_h) ==
    LET y == ap_row(i, patch_dim_h) * ps
        x == ap_col(i, patch_dim_h) * ps
    IN  {ix \in Indices(res.shape) :
            /\ y <= ix[1] /\ ix[1] < y + ps
            /\ x <= ix[2] /\ ix[2] < x + ps}

\* line 147: result[y:y+patch_size, x:x+patch_size] = pred_patches[i]
ap_store(res, pp, i, ps, patch_dim_h) ==
    LET y == ap_row(i, patch_dim_h) * ps
        x == ap_col(i, patch_dim_h) * ps
        T == ap_target(res, i, ps, patch_dim_h)
        src(ix) == <<i, IF pp.shape[2] = 1 THEN 0 ELSE ix[1] - y,
                        IF pp.shape[3] = 1 THEN 0 ELSE ix[2] - x>>
    IN  [ix \in DOMAIN res.data |->
            IF ix \in T THEN astype_uint8(pp.data[src(ix)]) ELSE res.data[ix]]

\* pred_patches handed in by a caller with its own predictions
AssemblePatchesCall(Hs, Ws) ==
    /\ pc = "idle"
    /\ \E h \in Hs, w \in Ws, ps \in 1 .. MaxP, base \in Bases :
          \E n \in 0 .. (np_product(patch_dims(<<h, w>>, ps)) + MaxExtra) :
              /\ pred_patches' = MakeArray(<<n, ps, ps>>, base)
              /\ mat_size' = <<h, w>>
              /\ patch_size' = ps
    /\ call' = "assemble_patches"
    /\ pc' = "ap_setup"
    /\ UNCHANGED <<mat, patches_dim, patches_count, patches, result, pending,
                   writes, err, ret, chan>>

\* the channel-k slice patches[:, :, :, k] of the tiler's return value
channel_slice(arr, k) ==
    [shape |-> <<arr.shape[1], arr.shape[2], arr.shape[3]>>,
     data |-> [ix \in Indices(<<arr.shape[1], arr.shape[2], arr.shape[3]>>) |->
                  arr.data[<<ix[1], ix[2], ix[3], k>>]]]

\* the caller hands the unchanged channel-k slices of create_patches' return value to
\* assemble_patches, with the source extent or the padded extent as mat_size
AssembleTiledCall ==
    /\ call = "create_patches"
    /\ pc = "returned"
    /\ \E k \in Range0(Channels), padded \in BOOLEAN :
          /\ chan' = k
          /\ pred_patches' = channel_slice(ret, k)
          /\ mat_size' = IF padded
                         THEN <<patches_dim[1] * patch_size, patches_dim[2] * patch_size>>
                         ELSE <<mat.shape[1], mat.shape[2]>>
    /\ call' = "assemble_patches"
    /\ pc' = "ap_setup"
    /\ UNCHANGED <<mat, patch_size, patches_dim, patches_count, patches, result,
                   pending, writes, err, ret>>

\* lines 139-141
ApSetup ==
    /\ pc = "ap_setup"
    /\ patches_dim' = patch_dims(mat_size, patch_size)
    /\ result' = np_zeros(<<patch_size * patches_dim'[1], patch_size * patches_dim'[2]>>)
    /\ writes' = [ix \in Indices(result'.shape) |-> 0]
    /\ patches_count' = pred_patches.shape[1]
    /\ pending' = Range0(patches_count')
    /\ pc' = "ap_loop"
    /\ UNCHANGED <<call, mat, patch_size, mat_size, pred_patches, patches, err, ret, chan>>

\* one iteration of the loop of lines 143-147
ApBody(i) ==
    IF patches_dim[1] = 0
    THEN \* line 145: math.floor of i / 0, which is inf or nan
         /\ pc' = "raised"
         /\ err' = "ArithmeticError"
         /\ UNCHANGED <<result, writes, pending>>
    ELSE LET y == ap_row(i, patches_dim[1]) * patch_size
             x == ap_col(i, patches_dim[1]) * patch_size
             th == slice_len(y, patch_size, result.shape[1])
             tw == slice_len(x, patch_size, result.shape[2])
         IN  IF ~broadcastable(pred_patches.shape[2], pred_patches.shape[3], th, tw)
             THEN /\ pc' = "raised"
                  /\ err' = "ValueError"
                  /\ UNCHANGED <<result, writes, pending>>
             ELSE /\ result' = [result EXCEPT !.data =
                                   ap_store(result, pred_patches, i, patch_size,
                                            patches_dim[1])]
                  /\ writes' = Bump(writes,
                                    ap_target(result, i, patch_size, patches_dim[1]))
                  /\ pending' = pending \ {i}
                  /\ UNCHANGED <<pc, err>>

ApLoopStep ==
    /\ pc = "ap_loop" /\ pending # {}
    /\ ApBody(ap_next(pending))
    /\ UNCHANGED <<call, mat, patch_size, mat_size, pred_patches, patches_dim,
                   patches_count, patches, ret, chan>>

ApLoopStepAny ==
    /\ pc = "ap_loop"
    /\ \E i \in pending : ApBody(i)
    /\ UNCHANGED <<call, mat, patch_size, mat_size, pred_patches, patches_dim,
                   patches_count, patches, ret, chan>>

\* line 149
ApReturn ==
    /\ pc = "ap_loop"
    /\ pending = {}
    /\ ret' = result
    /\ pc' = "returned"
    /\ UNCHANGED <<call, mat, patch_size, mat_size, pred_patches, patches_dim,
                   patches_count, patches, result, pending, writes, err, chan>>

\* the loop of lines 123-134 run to completion in the code's order
RECURSIVE cp_run(_, _, _, _, _)
cp_run(buf, todo, m, ps, dims) ==
    IF todo = {} THEN buf
    ELSE LET c == cp_next(todo)
         IN  cp_run(cp_store(buf, m, c[1], c[2], ps, dims), todo \ {c}, m, ps, dims)

\* the loop of lines 143-147 run to completion in the code's order
\* (all targets accepted by the assignment)
RECURSIVE ap_run(_, _, _, _, _)
ap_run(res, todo, pp, ps, patch_dim_h) ==
    IF todo = {} THEN res
    ELSE LET i == ap_next(todo)
         IN  ap_run([res EXCEPT !.data = ap_store(res, pp, i, ps, patch_dim_h)],
                    todo \ {i}, pp, ps, patch_dim_h)

\* ---- specifications ----
Init ==
    /\ call = "none"
    /\ pc = "idle"
    /\ mat = NoArray
    /\ patch_size = 1
    /\ mat_size = <<>>
    /\ pred_patches = NoArray
    /\ patches_dim = <<>>
    /\ patches_count = 0
    /\ patches = NoArray
    /\ result = NoArray
    /\ pending = {}
    /\ writes = <<>>
    /\ err = "none"
    /\ ret = <<>>
    /\ chan = -1

Next ==
    \/ PatchDimsCall
    \/ CreatePatchesCall(0 .. MaxH, 0 .. MaxW)
    \/ CpAssert
    \/ CpDims
    \/ CpAlloc
    \/ CpLoopStep
    \/ CpReturn
    \/ AssemblePatchesCall(0 .. MaxH, 0 .. MaxW)
    \/ AssembleTiledCall
    \/ ApSetup
    \/ ApLoopStep
    \/ ApReturn

Spec == Init /\ [][Next]_vars

\* the same calls with the per-patch steps of both loops taken in any order
NextAnyOrder ==
    \/ CreatePatchesCall(0 .. MaxParH, 0 .. MaxParW)
    \/ CpAssert
    \/ CpDims
    \/ CpAlloc
    \/ CpLoopStepAny
    \/ CpReturn
    \/ AssemblePatchesCall(0 .. MaxParH, 0 .. MaxParW)
    \/ AssembleTiledCall
    \/ ApSetup
    \/ ApLoopStepAny
    \/ ApReturn

SpecAnyOrder == Init /\ [][NextAnyOrder]_vars

\* ---- properties ----
\* source extent and the grid that covers it, stated without patch_dims
SrcH == mat.shape[1]
SrcW == mat.shape[2]
GridRows == (SrcH + patch_size - 1) \div patch_size
GridCols == (SrcW + patch_size - 1) \div patch_size

\* every source element is an integer in 0..255
SourceIsBytes ==
    \A ix \in DOMAIN mat.data :
        IsIntFloat(mat.data[ix]) /\ 0 <= mat.data[ix] /\ mat.data[ix] <= FloatOfInt(255)

\* assemble_patches has returned the reassembly of the unchanged channel slices
RoundTripDone == call = "assemble_patches" /\ pc = "returned" /\ chan >= 0

\* C1: tiling a source whose extents are exact multiples of P and whose elements are
\* integers in 0..255, then assembling the unchanged channel-k slices with
\* mat_size = (H, W), returns an (H, W) array equal to channel k of the source.
C1_RoundTripExact ==
    (/\ RoundTripDone
     /\ SrcH % patch_size = 0 /\ SrcW % patch_size = 0
     /\ mat_size = <<SrcH, SrcW>>
     /\ SourceIsBytes)
    => /\ ret.shape = <<SrcH, SrcW>>
       /\ \A a \in Range0(SrcH), b \in Range0(SrcW) :
             FloatOfInt(ret.data[<<a, b>>]) = mat.data[<<a, b, chan>>]

C1_Witness ==
    /\ RoundTripDone
    /\ patch_size = 2 /\ SrcH = 4 /\ SrcW = 2
    /\ mat_size = <<4, 2>>
    /\ SourceIsBytes
    /\ chan = 3
    /\ ret.data[<<3, 1>>] > 0

\* C2: while the tiler runs, the patches it has stored are exactly those whose
\* assembler cell (i mod rows, i div rows), for the dims the assembler derives from the
\* same (H, W) and P, is a grid cell already processed; the index row + col*rows
\* is a bijection from the grid onto 0..rows*cols-1 and the assembler maps it back.
C2_IndexAgreement ==
    (call = "create_patches" /\ pc \in {"cp_loop", "returned"})
    => LET dims == patch_dims(<<SrcH, SrcW>>, patch_size)
           grid == Range0(GridRows) \X Range0(GridCols)
           ids == {cp_patch_id(c[1], c[2], patches_dim) : c \in grid}
       IN  /\ \A c \in grid :
                 LET i == c[1] + c[2] * GridRows
                 IN  /\ cp_patch_id(c[1], c[2], patches_dim) = i
                     /\ <<ap_row(i, dims[1]), ap_col(i, dims[1])>> = c
           /\ ids = Range0(GridRows * GridCols)
           /\ Cardinality(ids) = Cardinality(grid)
           /\ \A i \in Range0(patches_count) :
                 dims[1] > 0 =>
                    (writes[<<i, 0, 0, 0>>] = 1
                       <=> <<ap_row(i, dims[1]), ap_col(i, dims[1])>> \in grid \ pending)

C2_Witness ==
    /\ call = "create_patches" /\ pc = "cp_loop"
    /\ patches_dim = <<2, 3>>
    /\ Cardinality(pending) = 2
    /\ writes[<<1, 0, 0, 0>>] = 1
    /\ writes[<<5, 0, 0, 0>>] = 0

\* C3: create_patches returns rows*cols patches of shape (P, P, 4); element
\* (i, j, k) of patch r + c*rows is source[r*P+i, c*P+j, k] inside the source
\* extent and 0 outside it.
C3_TilerContent ==
    (call = "create_patches" /\ pc = "returned")
    => /\ ret.shape = <<GridRows * GridCols, patch_size, patch_size, Channels>>
       /\ DOMAIN ret.data = Indices(ret.shape)
       /\ \A r \in Range0(GridRows), c \in Range0(GridCols),
             i \in Range0(patch_size), j \in Range0(patch_size), k \in Range0(Channels) :
             ret.data[<<r + c * GridRows, i, j, k>>] =
                IF r * patch_size + i < SrcH /\ c * patch_size + j < SrcW
                THEN mat.data[<<r * patch_size + i, c * patch_size + j, k>>]
                ELSE 0

C3_Witness ==
    /\ call = "create_patches" /\ pc = "returned"
    /\ SrcH = 3 /\ SrcW = 4 /\ patch_size = 2
    /\ ret.data[<<1, 0, 0, 2>>] = mat.data[<<2, 0, 2>>]
    /\ ret.data[<<1, 0, 0, 2>>] > 0
    /\ ret.data[<<1, 1, 0, 2>>] = 0

\* assemble_patches has returned for a patch count equal to rows*cols
AssembledAll ==
    /\ call = "assemble_patches" /\ pc = "returned"
    /\ pred_patches.shape =
          <<np_product(patch_dims(mat_size, patch_size)), patch_size, patch_size>>

\* the patch element that cell (a, b) of the output is taken from
PatchElementOf(a, b) ==
    LET rows == (mat_size[1] + patch_size - 1) \div patch_size
    IN  pred_patches.data[<<(a \div patch_size) + (b \div patch_size) * rows,
                            a % patch_size, b % patch_size>>]

\* C4 as stated: every cell (a, b) of the output equals
\* pred_patches[(a div P) + (b div P)*rows][a mod P, b mod P].
C4_AssemblerEqualsPatch ==
    AssembledAll
    => \A ix \in DOMAIN ret.data :
          FloatOfInt(ret.data[ix]) = PatchElementOf(ix[1], ix[2])

\* C4 amended: the output has shape (P*rows, P*cols), every cell was stored into
\* exactly once, and cell (a, b) is the element
\* pred_patches[(a div P) + (b div P)*rows][a mod P, b mod P] truncated to an
\* integer (elements in [0, 256)), hence equal to it when it is an integer.
C4_AssemblerTruncatedPatch ==
    AssembledAll
    => LET rows == (mat_size[1] + patch_size - 1) \div patch_size
           cols == (mat_size[2] + patch_size - 1) \div patch_size
       IN  /\ ret.shape = <<patch_size * rows, patch_size * cols>>
           /\ DOMAIN ret.data = Indices(ret.shape)
           /\ \A ix \in DOMAIN ret.data :
                 LET v == PatchElementOf(ix[1], ix[2])
                 IN  /\ writes[ix] = 1
                     /\ FloatOfInt(ret.data[ix]) <= v
                     /\ v < FloatOfInt(ret.data[ix] + 1)
                     /\ IsIntFloat(v) => FloatOfInt(ret.data[ix]) = v

C4_Witness ==
    /\ AssembledAll
    /\ chan = -1
    /\ mat_size = <<3, 3>> /\ patch_size = 2
    /\ ret.shape = <<4, 4>>
    /\ ~IsIntFloat(pred_patches.data[<<2, 0, 0>>])
    /\ FloatOfInt(ret.data[<<0, 2>>]) + 1 = pred_patches.data[<<2, 0, 0>>]

\* C5: for H, W >= 0 and P > 0, patch_dims((H, W), P) is (rows, cols) with
\* rows*P >= H > (rows-1)*P and cols*P >= W > (cols-1)*P, i.e. the per-axis ceilings.
C5_GridDimensions ==
    (call = "patch_dims" /\ pc = "returned" /\ patch_size > 0)
    => /\ Len(ret) = 2
       /\ \A d \in 1 .. 2 :
             /\ ret[d] >= 0
             /\ ret[d] * patch_size >= mat_size[d]
             /\ (ret[d] - 1) * patch_size < mat_size[d]

C5_Witness ==
    /\ call = "patch_dims" /\ pc = "returned"
    /\ patch_size = 2 /\ mat_size = <<3, 4>>
    /\ ret = <<2, 2>>

\* C6 as stated: whenever the patch count differs from rows*cols, assemble_patches
\* fails, never returns, and has stored into no cell of the output.
C6_SizeMismatchFails ==
    (/\ call = "assemble_patches"
     /\ pc \in {"ap_loop", "returned", "raised"}
     /\ patches_count # np_product(patches_dim))
    => /\ pc # "returned"
       /\ \A ix \in DOMAIN writes : writes[ix] = 0

\* C7: create_patches on a source that is not 3-dimensional or whose last dimension
\* is not 4 raises at the assertions, with no grid dimensions computed, no patch
\* buffer allocated and nothing returned.
C7_ShapeMismatchFails ==
    (/\ call = "create_patches"
     /\ pc # "cp_assert"
     /\ (Len(mat.shape) # 3 \/ mat.shape[Len(mat.shape)] # 4))
    => /\ pc = "raised"
       /\ err = "AssertionError"
       /\ patches_dim = <<>>
       /\ patches = NoArray
       /\ ret = <<>>

C7_Witness ==
    /\ call = "create_patches"
    /\ pc = "raised" /\ err = "AssertionError"
    /\ mat.shape = <<2, 2, 3>>
    /\ patches = NoArray

\* C8 as stated: patch_dims never returns for a patch size <= 0, and
\* create_patches does not get past it for such a patch size.
C8_NonPositivePatchSizeFails ==
    /\ (call = "patch_dims" /\ pc = "returned") => patch_size > 0
    /\ (call = "create_patches" /\ patch_size <= 0 /\ pc \notin {"cp_assert", "cp_dims"})
          => pc = "raised" /\ patches_dim = <<>>

\* C9: with the per-patch steps of either loop taken in any order, no element of
\* the output buffer is stored into twice, and the value returned is the one the
\* code's own order produces (assemble_patches: for a patch count of rows*cols).
C9_OrderIndependent ==
    /\ (call = "create_patches" /\ pc \in {"cp_loop", "returned"})
          => \A ix \in DOMAIN writes : writes[ix] <= 1
    /\ (call = "create_patches" /\ pc = "returned")
          => ret.data = cp_run(np_zeros(ret.shape).data,
                               Range0(patches_dim[1]) \X Range0(patches_dim[2]),
                               mat, patch_size, patches_dim)
    /\ (/\ call = "assemble_patches" /\ pc \in {"ap_loop", "returned"}
        /\ patches_count = np_product(patches_dim))
          => \A ix \in DOMAIN writes : writes[ix] <= 1
    /\ (/\ call = "assemble_patches" /\ pc = "returned"
        /\ patches_count = np_product(patches_dim))
          => ret = ap_run(np_zeros(ret.shape), Range0(patches_count), pred_patches,
                          patch_size, patches_dim[1])

\* a column-outer step order: (1, 0) has been processed before (0, 1)
C9_Witness ==
    /\ call = "create_patches" /\ pc = "cp_loop"
    /\ patches_dim = <<2, 2>>
    /\ pending = {<<0, 1>>, <<1, 1>>}
    /\ writes[<<1, 0, 0, 0>>] = 1

\* C10: for H, W >= 1 and P >= 1 the dims derived from (H, W), those the tiler
\* derived, and those derived from the padded extent (rows*P, cols*P) are equal;
\* tiling a source of integers in 0..255 and assembling the unchanged channel-k
\* slices with mat_size = (H, W) returns a (rows*P, cols*P) array that is channel k
\* of the source inside (H, W) and 0 outside.
C10_RoundTripPadded ==
    /\ (/\ call = "create_patches" /\ pc \in {"cp_alloc", "cp_loop", "returned"}
        /\ patch_size >= 1 /\ SrcH >= 1 /\ SrcW >= 1)
          => /\ patch_dims(<<SrcH, SrcW>>, patch_size) = patches_dim
             /\ patch_dims(<<patches_dim[1] * patch_size, patches_dim[2] * patch_size>>,
                           patch_size) = patches_dim
             /\ patches_dim = <<GridRows, GridCols>>
    /\ (/\ RoundTripDone
        /\ SrcH >= 1 /\ SrcW >= 1
        /\ mat_size = <<SrcH, SrcW>>
        /\ SourceIsBytes)
          => /\ ret.shape = <<GridRows * patch_size, GridCols * patch_size>>
             /\ DOMAIN ret.data = Indices(ret.shape)
             /\ \A ix \in DOMAIN ret.data :
                   FloatOfInt(ret.data[ix]) =
                      IF ix[1] < SrcH /\ ix[2] < SrcW
                      THEN mat.data[<<ix[1], ix[2], chan>>]
                      ELSE 0

C10_Witness ==
    /\ RoundTripDone
    /\ SrcH = 3 /\ SrcW = 1 /\ patch_size = 2
    /\ mat_size = <<3, 1>>
    /\ SourceIsBytes
    /\ ret.shape = <<4, 2>>
    /\ FloatOfInt(ret.data[<<2, 0>>]) = mat.data[<<2, 0, chan>>]
    /\ ret.data[<<2, 0>>] > 0
    /\ ret.data[<<3, 1>>] = 0

====
